---- MODULE Spec2Model ----
(***************************************************************************)
(* marain-server: the receive routing task (handlers/recv_routing.rs) and  *)
(* the command task (handlers/commands.rs) of every connection, sharing    *)
(* the room registry (LockedRoomMap), the rooms' occupant tables and the   *)
(* users' identity records, each behind a std::sync::Mutex.                *)
(*                                                                         *)
(* A std Mutex is poisoned when a guard is dropped by a panic; lock() on a *)
(* poisoned Mutex returns Err, which .unwrap()/.expect() turn into a panic *)
(* of the calling task.  A panic ends the task that raised it only.        *)
(* The wall-clock timestamp of the ServerMsg a command sends is left out.  *)
(*                                                                         *)
(* The helpers of services/message_builder.rs are pure functions of their  *)
(* arguments, the clock and the outcome of bincode and cbc_encode; they    *)
(* are modelled as operators and exercised by AdaptorSpec.                 *)
(***************************************************************************)
EXTENDS Naturals, Sequences, FiniteSets

\* ---------------------------------------------------------------- bounds
NumUsers == 2      \* connections; connection c belongs to the user with id c
NumRooms == 2      \* rooms of the registry
MaxFrames == 3     \* items the inbound streams yield, over all connections

Users == 1..NumUsers
\* The ids a user record may name: the rooms, and one id of no room.
RoomIds == 1..(NumRooms + 1)

\* ------------------------------------------------------------ data shapes
Free == <<"free", 0>>
RecvTask(c) == <<"recv", c>>
CmdTask(c) == <<"cmd", c>>

\* Room::default(): a room of no registry, with an empty occupant table.
EmptyRoom == 0

\* Option<String> token and the ClientMsgBody variants the router tells apart.
Tokens == {"None", "Some"}
Bodies == {"SendToRoom", "GetTime", "Other"}
ClientMsgs == [token : Tokens, body : Bodies]
NoMsg == [token |-> "None", body |-> "Other"]

\* An item of the inbound stream: Ok(close), Ok(text), Ok(anything else), Err(e).
\* A text frame is JSON of a ClientMsg (wellFormed) or anything else.
Frames ==
    {[kind |-> k, wellFormed |-> FALSE, msg |-> NoMsg] : k \in {"close", "other", "err", "text"}}
    \cup {[kind |-> "text", wellFormed |-> TRUE, msg |-> m] : m \in ClientMsgs}
NoFrame == [kind |-> "none", wellFormed |-> FALSE, msg |-> NoMsg]
EndOfStream == [kind |-> "end", wellFormed |-> FALSE, msg |-> NoMsg]

\* What the logs and the transport show of one step: the frame a
\* connection was handed, or the way its command ended.
Event(c, f, end) == [conn |-> c, frame |-> f, cmd |-> end]

GetTime == "GetTime"
ServerMsgTime == [status |-> "Yes", body |-> "Empty"]

\* No helper of SocketSendAdaptor has been called; none has returned.
NoCall == [fn |-> "none"]
NoRet == [ok |-> FALSE, err |-> "pending"]

VARIABLES
    registry,      \* room ids that are keys of the room map
    userRoom,      \* userRoom[c]: User.room of connection c's user
    occupants,     \* occupants[r]: r's occupant table, user id -> reply channel
    regLock,       \* holder of the room map's Mutex
    occLock,       \* occLock[r]: holder of r's occupant table Mutex
    userLock,      \* userLock[c]: holder of the Mutex of c's User
    regPoisoned, occPoisoned, userPoisoned,
    chan,          \* chan[k]: ServerMsgs delivered to reply channel k
    roomSink,      \* Messages sent on room_sink
    cmdQ,          \* cmdQ[c]: the command queue of connection c
    msgQ,          \* msgQ[c]: what connection c put on the chat queue
    recvPc, cmdPc, \* where each task is
    delivered,     \* frames the transport has delivered so far, all connections
    rmCalls,       \* rmCalls[c]: calls of remove_user by connection c
    last,          \* the latest frame delivered or command finished, and whose
    firstPanic,    \* the panic that poisoned the registry lock, and whose
    call,          \* the call of a SocketSendAdaptor helper under way, if any
    ret            \* what that call returned

vars == <<registry, userRoom, occupants, regLock, occLock, userLock,
          regPoisoned, occPoisoned, userPoisoned, chan, roomSink,
          cmdQ, msgQ, recvPc, cmdPc, delivered, rmCalls, last, firstPanic,
          call, ret>>

locks == <<regLock, occLock, userLock>>
poison == <<regPoisoned, occPoisoned, userPoisoned, firstPanic>>
world == <<registry, userRoom>>
chans == <<chan, roomSink>>
adaptor == <<call, ret>>

\* ------------------------------------------------------------------- Init
\* Users are interchangeable and so are the rooms of the registry: one
\* assignment of rooms to users stands for all that differ by renaming.
InOrder(ur) ==
    /\ \A a, b \in Users : a < b => ur[a] <= ur[b]
    /\ \A r \in 2..NumRooms : (\E c \in Users : ur[c] = r) => (\E c \in Users : ur[c] = r - 1)

\* Every user has joined the room its record names when that room exists;
\* a record may name a room that is no longer in the registry.
CoreInit ==
    /\ registry = 1..NumRooms
    /\ userRoom \in {ur \in [Users -> RoomIds] : InOrder(ur)}
    /\ occupants = [r \in RoomIds |->
           [u \in {v \in Users : userRoom[v] = r /\ r \in registry} |-> u]]
    /\ regLock = Free
    /\ occLock = [r \in RoomIds |-> Free]
    /\ userLock = [c \in Users |-> Free]
    /\ regPoisoned = FALSE
    /\ occPoisoned = [r \in RoomIds |-> FALSE]
    /\ userPoisoned = [c \in Users |-> FALSE]
    /\ chan = [k \in Users |-> <<>>]
    /\ roomSink = <<>>
    /\ cmdQ = [c \in Users |-> <<>>]
    /\ msgQ = [c \in Users |-> <<>>]
    /\ recvPc = [c \in Users |-> "Reading"]
    /\ cmdPc = [c \in Users |-> "Waiting"]
    /\ delivered = 0
    /\ rmCalls = [c \in Users |-> 0]
    /\ last = Event(0, NoFrame, "none")
    /\ firstPanic = Event(0, NoFrame, "none")

Init ==
    /\ CoreInit
    /\ call = NoCall
    /\ ret = NoRet

\* rooms.get(&user.room): the room the user's record names, if the registry
\* has it.  Neither the registry nor User.room changes while its lock is held.
LookupRoom(c) == IF userRoom[c] \in registry THEN userRoom[c] ELSE EmptyRoom
\* ... .unwrap_or(&empty) in remove_user
RmRoom(c) == LookupRoom(c)
\* current_room in command_handler, on its Some(rm) arm
CmdRoom(c) == LookupRoom(c)

\* ------------------------------------------------- recv_routing_handler
\* serde_json::from_str::<ClientMsg>(msg_str)
Decode(f) ==
    IF f.wellFormed THEN [ok |-> TRUE, cm |-> f.msg]
    ELSE [ok |-> FALSE, cm |-> NoMsg]

\* Classify with the token guard of both arms left out.
Classify_NoTokenGuard(cm) ==
    IF cm.body = "SendToRoom" THEN "chat"
    ELSE IF cm.body = "GetTime" THEN "cmd"
    ELSE "drop"

\* The match on the decoded ClientMsg: which pipe it goes to.
Classify(cm) ==
    IF cm.token = "Some" /\ cm.body = "SendToRoom" THEN "chat"
    ELSE IF cm.token = "Some" /\ cm.body = "GetTime" THEN "cmd"
    ELSE "drop"

\* FrameRoute with a decode failure handled like a transport error.
FrameRoute_DecodeErrCloses(f) ==
    IF f.kind \in {"close", "err"} THEN "remove"
    ELSE IF f.kind = "text" /\ Decode(f).ok THEN Classify(Decode(f).cm)
    ELSE IF f.kind = "text" THEN "remove"
    ELSE "drop"

\* The match of the closure on one item: what is done with it.
FrameRoute(f) ==
    IF f.kind \in {"close", "err"} THEN "remove"
    ELSE IF f.kind = "text" /\ Decode(f).ok THEN Classify(Decode(f).cm)
    ELSE "drop"

\* The receiver of c's command queue lives as long as c's command task.
CmdReceiverAlive(c) == cmdPc[c] \notin {"Panicked", "Ended"}

\* The ClientMsg as it travels: its remaining fields, unique per arrival.
Envelope(c, cm) == [token |-> cm.token, body |-> cm.body, stamp |-> delivered + 1]

\* One call of the for_each closure on the next item of the stream.
RecvFrame(c, f) ==
    /\ recvPc[c] = "Reading"
    /\ delivered < MaxFrames
    /\ delivered' = delivered + 1
    /\ last' = Event(c, f, "none")
    /\ LET to == FrameRoute(f)
       IN  /\ rmCalls' = IF to = "remove" THEN [rmCalls EXCEPT ![c] = @ + 1] ELSE rmCalls
           /\ msgQ' = IF to = "chat"
                      THEN [msgQ EXCEPT ![c] = Append(@, Envelope(c, Decode(f).cm))]
                      ELSE msgQ
           /\ cmdQ' = IF to = "cmd" /\ CmdReceiverAlive(c)
                      THEN [cmdQ EXCEPT ![c] = Append(@, GetTime)]
                      ELSE cmdQ
           /\ recvPc' = IF to = "remove" THEN [recvPc EXCEPT ![c] = "rm_reg"]
                        ELSE IF to = "cmd" /\ ~CmdReceiverAlive(c)
                        THEN [recvPc EXCEPT ![c] = "Panicked"]
                        ELSE recvPc
    /\ UNCHANGED <<world, adaptor, occupants, locks, poison, chans, cmdPc>>

\* The stream is exhausted: for_each completes and the handler returns.
RecvEnd(c) ==
    /\ recvPc[c] = "Reading"
    /\ delivered < MaxFrames
    /\ delivered' = delivered + 1
    /\ last' = Event(c, EndOfStream, "none")
    /\ recvPc' = [recvPc EXCEPT ![c] = "Returned"]
    /\ UNCHANGED <<world, adaptor, occupants, locks, poison, chans, cmdQ, msgQ, cmdPc, rmCalls>>

\* ------------------------------------------------------------ remove_user
\* The registry lock stays poisoned by the first panic that unwound through
\* its guard.
PoisonedBy(c, cause) == IF regPoisoned THEN firstPanic ELSE Event(c, NoFrame, cause)

\* let rooms = room_map.lock().unwrap();
RmLockRegistry(c) ==
    /\ recvPc[c] = "rm_reg"
    /\ regLock = Free
    /\ IF regPoisoned
       THEN /\ recvPc' = [recvPc EXCEPT ![c] = "Panicked"]
            /\ UNCHANGED regLock
       ELSE /\ recvPc' = [recvPc EXCEPT ![c] = "rm_user"]
            /\ regLock' = RecvTask(c)
    /\ UNCHANGED <<world, adaptor, occupants, occLock, userLock, poison, chans, cmdQ, msgQ,
                   cmdPc, delivered, rmCalls, last>>

\* rooms.get(&user.lock().unwrap().room).unwrap_or(&empty): the guard of the
\* user is a temporary of the let statement and lives to its end.
RmLockUser(c) ==
    /\ recvPc[c] = "rm_user"
    /\ userLock[c] = Free
    /\ IF userPoisoned[c]
       THEN /\ recvPc' = [recvPc EXCEPT ![c] = "Panicked"]
            /\ regPoisoned' = TRUE
            /\ firstPanic' = PoisonedBy(c, "panic_user_lock")
            /\ regLock' = Free
            /\ UNCHANGED userLock
       ELSE /\ recvPc' = [recvPc EXCEPT ![c] = "rm_occ"]
            /\ userLock' = [userLock EXCEPT ![c] = RecvTask(c)]
            /\ UNCHANGED <<regLock, regPoisoned, firstPanic>>
    /\ UNCHANGED <<world, adaptor, occupants, occLock, occPoisoned, userPoisoned, chans, cmdQ,
                   msgQ, cmdPc, delivered, rmCalls, last>>

\* RmLockOccupants with the guard of the user bound to a name that lives to
\* the end of remove_user.
RmLockOccupants_KeepsUserGuard(c) ==
    /\ recvPc[c] = "rm_occ"
    /\ RmRoom(c) # EmptyRoom => occLock[RmRoom(c)] = Free
    /\ IF RmRoom(c) # EmptyRoom /\ occPoisoned[RmRoom(c)]
       THEN /\ recvPc' = [recvPc EXCEPT ![c] = "Panicked"]
            /\ regPoisoned' = TRUE
            /\ firstPanic' = PoisonedBy(c, "panic_occupants_lock")
            /\ userPoisoned' = [userPoisoned EXCEPT ![c] = TRUE]
            /\ regLock' = Free
            /\ UNCHANGED occLock
       ELSE /\ recvPc' = [recvPc EXCEPT ![c] = "rm_remove"]
            /\ occLock' = IF RmRoom(c) # EmptyRoom
                          THEN [occLock EXCEPT ![RmRoom(c)] = RecvTask(c)]
                          ELSE occLock
            /\ UNCHANGED <<regLock, regPoisoned, userPoisoned, firstPanic>>
    /\ UNCHANGED userLock
    /\ UNCHANGED <<world, adaptor, occupants, occPoisoned, chans, cmdQ, msgQ, cmdPc, delivered, rmCalls, last>>

\* .occupants.lock().expect(..), then the let statement ends and drops the
\* guard of the user.  The table of Room::default() is local to the call.
RmLockOccupants(c) ==
    /\ recvPc[c] = "rm_occ"
    /\ RmRoom(c) # EmptyRoom => occLock[RmRoom(c)] = Free
    /\ IF RmRoom(c) # EmptyRoom /\ occPoisoned[RmRoom(c)]
       THEN /\ recvPc' = [recvPc EXCEPT ![c] = "Panicked"]
            /\ regPoisoned' = TRUE
            /\ firstPanic' = PoisonedBy(c, "panic_occupants_lock")
            /\ userPoisoned' = [userPoisoned EXCEPT ![c] = TRUE]
            /\ regLock' = Free
            /\ UNCHANGED occLock
       ELSE /\ recvPc' = [recvPc EXCEPT ![c] = "rm_remove"]
            /\ occLock' = IF RmRoom(c) # EmptyRoom
                          THEN [occLock EXCEPT ![RmRoom(c)] = RecvTask(c)]
                          ELSE occLock
            /\ UNCHANGED <<regLock, regPoisoned, userPoisoned, firstPanic>>
    /\ userLock' = [userLock EXCEPT ![c] = Free]
    /\ UNCHANGED <<world, adaptor, occupants, occPoisoned, chans, cmdQ, msgQ, cmdPc, delivered, rmCalls, last>>

\* RemoveOccupant keeping the entry of id and dropping the others.
RemoveOccupant_KeepsOnlyId(table, id) == [u \in (DOMAIN table) \cap {id} |-> table[u]]

\* HashMap::remove(&id) on an occupant table.
RemoveOccupant(table, id) == [u \in (DOMAIN table) \ {id} |-> table[u]]

\* members.remove(&user.lock().unwrap().id); then members and rooms drop.
RmRemove(c) ==
    /\ recvPc[c] = "rm_remove"
    /\ userLock[c] = Free
    /\ IF userPoisoned[c]
       THEN /\ recvPc' = [recvPc EXCEPT ![c] = "Panicked"]
            /\ regPoisoned' = TRUE
            /\ firstPanic' = PoisonedBy(c, "panic_user_lock")
            /\ occPoisoned' = IF RmRoom(c) # EmptyRoom
                              THEN [occPoisoned EXCEPT ![RmRoom(c)] = TRUE]
                              ELSE occPoisoned
            /\ UNCHANGED occupants
       ELSE /\ recvPc' = [recvPc EXCEPT ![c] = "Reading"]
            /\ occupants' = IF RmRoom(c) # EmptyRoom
                            THEN [occupants EXCEPT ![RmRoom(c)] = RemoveOccupant(@, c)]
                            ELSE occupants
            /\ UNCHANGED <<regPoisoned, occPoisoned, firstPanic>>
    /\ regLock' = Free
    /\ occLock' = IF RmRoom(c) # EmptyRoom
                  THEN [occLock EXCEPT ![RmRoom(c)] = Free]
                  ELSE occLock
    /\ UNCHANGED <<world, adaptor, userLock, userPoisoned, chans, cmdQ, msgQ, cmdPc, delivered, rmCalls, last>>

\* -------------------------------------------------------- command_handler
\* cmd_source.next().await yields Some(cmd).
CmdNext(c) ==
    /\ cmdPc[c] = "Waiting"
    /\ cmdQ[c] # <<>>
    /\ cmdQ' = [cmdQ EXCEPT ![c] = Tail(@)]
    /\ cmdPc' = [cmdPc EXCEPT ![c] = "c_reg"]
    /\ UNCHANGED <<world, adaptor, occupants, locks, poison, chans, msgQ, recvPc, delivered, rmCalls, last>>

\* cmd_source.next().await yields None: the queue is empty and the sender the
\* routing task owned is gone.
CmdEnd(c) ==
    /\ cmdPc[c] = "Waiting"
    /\ cmdQ[c] = <<>>
    /\ recvPc[c] \in {"Returned", "Panicked"}
    /\ cmdPc' = [cmdPc EXCEPT ![c] = "Ended"]
    /\ UNCHANGED <<world, adaptor, occupants, locks, poison, chans, cmdQ, msgQ, recvPc, delivered, rmCalls, last>>

\* let room_map = room.lock().unwrap();
CmdLockRegistry(c) ==
    /\ cmdPc[c] = "c_reg"
    /\ regLock = Free
    /\ IF regPoisoned
       THEN /\ cmdPc' = [cmdPc EXCEPT ![c] = "Panicked"]
            /\ last' = Event(c, NoFrame, "panic_registry_lock")
            /\ UNCHANGED regLock
       ELSE /\ cmdPc' = [cmdPc EXCEPT ![c] = "c_user"]
            /\ regLock' = CmdTask(c)
            /\ UNCHANGED last
    /\ UNCHANGED <<world, adaptor, occupants, occLock, userLock, poison, chans, cmdQ, msgQ,
                   recvPc, delivered, rmCalls>>

\* CmdLockUser with the guard of the room map kept over the None arm into the
\* next cmd_source.next().await.
CmdLockUser_GuardOutlivesTurn(c) ==
    /\ cmdPc[c] = "c_user"
    /\ userLock[c] = Free
    /\ IF userPoisoned[c]
       THEN /\ cmdPc' = [cmdPc EXCEPT ![c] = "Panicked"]
            /\ last' = Event(c, NoFrame, "panic_user_lock")
            /\ regPoisoned' = TRUE
            /\ firstPanic' = PoisonedBy(c, "panic_user_lock")
            /\ regLock' = Free
       ELSE IF userRoom[c] \in registry
       THEN /\ cmdPc' = [cmdPc EXCEPT ![c] = "c_occ"]
            /\ UNCHANGED <<last, regPoisoned, firstPanic, regLock>>
       ELSE /\ cmdPc' = [cmdPc EXCEPT ![c] = "Waiting"]
            /\ last' = Event(c, NoFrame, "logged_no_room")
            /\ UNCHANGED regLock
            /\ UNCHANGED <<regPoisoned, firstPanic>>
    /\ UNCHANGED <<world, adaptor, occupants, occLock, userLock, occPoisoned, userPoisoned,
                   chans, cmdQ, msgQ, recvPc, delivered, rmCalls>>

\* let current_room = room_map.get(&user.lock().unwrap().room); the guard of
\* the user drops at the end of this let.  None => log::error! and next turn.
CmdLockUser(c) ==
    /\ cmdPc[c] = "c_user"
    /\ userLock[c] = Free
    /\ IF userPoisoned[c]
       THEN /\ cmdPc' = [cmdPc EXCEPT ![c] = "Panicked"]
            /\ last' = Event(c, NoFrame, "panic_user_lock")
            /\ regPoisoned' = TRUE
            /\ firstPanic' = PoisonedBy(c, "panic_user_lock")
            /\ regLock' = Free
       ELSE IF userRoom[c] \in registry
       THEN /\ cmdPc' = [cmdPc EXCEPT ![c] = "c_occ"]
            /\ UNCHANGED <<last, regPoisoned, firstPanic, regLock>>
       ELSE /\ cmdPc' = [cmdPc EXCEPT ![c] = "Waiting"]
            /\ last' = Event(c, NoFrame, "logged_no_room")
            /\ regLock' = Free
            /\ UNCHANGED <<regPoisoned, firstPanic>>
    /\ UNCHANGED <<world, adaptor, occupants, occLock, userLock, occPoisoned, userPoisoned,
                   chans, cmdQ, msgQ, recvPc, delivered, rmCalls>>

\* let locked_occupants = rm.occupants.lock(); an Err goes to
\* prepare_route_command, which logs it.
CmdLockOccupants(c) ==
    /\ cmdPc[c] = "c_occ"
    /\ occLock[CmdRoom(c)] = Free
    /\ IF occPoisoned[CmdRoom(c)]
       THEN /\ cmdPc' = [cmdPc EXCEPT ![c] = "Waiting"]
            /\ last' = Event(c, NoFrame, "logged_poisoned")
            /\ regLock' = Free
            /\ UNCHANGED occLock
       ELSE /\ cmdPc' = [cmdPc EXCEPT ![c] = "c_route"]
            /\ occLock' = [occLock EXCEPT ![CmdRoom(c)] = CmdTask(c)]
            /\ UNCHANGED <<last, regLock>>
    /\ UNCHANGED <<world, adaptor, occupants, userLock, poison, chans, cmdQ, msgQ, recvPc, delivered, rmCalls>>

\* occupants.iter().find_map(..): the sender of the entry whose key is id.
NoSink == 0
FindSink(table, id) == IF id \in DOMAIN table THEN table[id] ELSE NoSink

\* route_command: the channels after the command, or "failed" when
\* unbounded_send returns Err because the receiver is gone.
RouteCommand(cmd, commander, receiverAlive) ==
    IF receiverAlive
    THEN [sent |-> TRUE, chan |-> [chan EXCEPT ![commander] = Append(@, ServerMsgTime)],
          roomSink |-> roomSink]
    ELSE [sent |-> FALSE, chan |-> chan, roomSink |-> roomSink]

\* prepare_route_command on Ok(occupants), then route_command.  Every
\* comparison of the scan locks the invoking user's record for its id.
CmdRoute(c) ==
    /\ cmdPc[c] = "c_route"
    /\ \E receiverAlive \in BOOLEAN :
       LET table == occupants[CmdRoom(c)]
           sink == FindSink(table, c)
           scanPanics == DOMAIN table # {} /\ userPoisoned[c]
           out == RouteCommand(GetTime, sink, receiverAlive)
           ok == ~scanPanics /\ sink # NoSink /\ out.sent
       IN  /\ DOMAIN table # {} => userLock[c] = Free
           /\ cmdPc' = [cmdPc EXCEPT ![c] = IF ok THEN "Waiting" ELSE "Panicked"]
           /\ last' = Event(c, NoFrame,
                  IF scanPanics THEN "panic_user_lock"
                  ELSE IF sink = NoSink THEN "panic_no_entry"
                  ELSE IF ~out.sent THEN "panic_send"
                  ELSE "sent")
           /\ chan' = IF ok THEN out.chan ELSE chan
           /\ roomSink' = IF ok THEN out.roomSink ELSE roomSink
           /\ regPoisoned' = (regPoisoned \/ ~ok)
           /\ firstPanic' = IF ok THEN firstPanic ELSE PoisonedBy(c, last'.cmd)
           /\ occPoisoned' = [occPoisoned EXCEPT ![CmdRoom(c)] = @ \/ ~ok]
    /\ regLock' = Free
    /\ occLock' = [occLock EXCEPT ![CmdRoom(c)] = Free]
    /\ UNCHANGED <<world, adaptor, occupants, userLock, userPoisoned, cmdQ, msgQ,
                   recvPc, delivered, rmCalls>>

\* --------------------------------------------- remove_user as a function
\* What the locks guard, as remove_user finds it.
RegistryState ==
    [occ |-> occupants, regP |-> regPoisoned, occP |-> occPoisoned, userP |-> userPoisoned]

\* remove_user run from its first line to its return or its panic.
RemoveUser(st, c) ==
    LET r == RmRoom(c)
    IN  IF st.regP THEN [st |-> st, result |-> "panic"]
        ELSE IF st.userP[c] THEN [st |-> [st EXCEPT !.regP = TRUE], result |-> "panic"]
        ELSE IF r # EmptyRoom /\ st.occP[r]
        THEN [st |-> [st EXCEPT !.regP = TRUE, !.userP[c] = TRUE], result |-> "panic"]
        ELSE IF r # EmptyRoom
        THEN [st |-> [st EXCEPT !.occ[r] = RemoveOccupant(@, c)], result |-> "ok"]
        ELSE [st |-> st, result |-> "ok"]


Next ==
    \/ \E c \in Users, f \in Frames : RecvFrame(c, f)
    \/ \E c \in Users : RecvEnd(c)
    \/ \E c \in Users : RmLockRegistry(c)
    \/ \E c \in Users : RmLockUser(c)
    \/ \E c \in Users : RmLockOccupants(c)
    \/ \E c \in Users : RmRemove(c)
    \/ \E c \in Users : CmdNext(c)
    \/ \E c \in Users : CmdEnd(c)
    \/ \E c \in Users : CmdLockRegistry(c)
    \/ \E c \in Users : CmdLockUser(c)
    \/ \E c \in Users : CmdLockOccupants(c)
    \/ \E c \in Users : CmdRoute(c)

Spec == Init /\ [][Next]_vars

\* The runtime keeps polling a spawned task that can run: a command task
\* with a command to take or a lock to get, a routing task inside remove_user.
\* What the inbound streams yield, and when, is up to the peers.
CmdStep(c) ==
    \/ CmdNext(c) \/ CmdEnd(c)
    \/ CmdLockRegistry(c) \/ CmdLockUser(c) \/ CmdLockOccupants(c) \/ CmdRoute(c)
RmStep(c) == RmLockRegistry(c) \/ RmLockUser(c) \/ RmLockOccupants(c) \/ RmRemove(c)

FairSpec == Spec /\ \A c \in Users : WF_vars(CmdStep(c)) /\ WF_vars(RmStep(c))

\* -------------------------------------------------------- message_builder
MaxLogs == 2       \* records of a room's chat log, and of its notification log

Names == {"ann", "bob"}
Stamps == {1, 2}
Contents == {"hi", "yo"}
Keys == {"k1", "k2"}
\* MessageLog and NotificationLog, User and Room, as the builders read them.
MessageLogs == [username : Names, timestamp : Stamps, contents : Contents]
NotificationLogs == [timestamp : Stamps, contents : Contents]
UserRecords == [name : Names]
RoomRecords == [name : {"lobby"}]
SeqsUpTo(S, n) == UNION {[1..k -> S] : k \in 0..n}

\* Timestamp::from(DateTime<Utc>) / .into()
TimestampFrom(dt) == [seconds |-> dt]
\* bincode::serialize(&s) on Ok; cbc_encode(key, serialized, rng) on Ok (the
\* initialisation vector drawn from rng is left out); Message::Binary(..).
Bincode(s) == [layer |-> "bincode", of |-> s]
Cbc(key, serialized) == [layer |-> "cbc", key |-> key, of |-> serialized]
Binary(bytes) == [kind |-> "Binary", payload |-> bytes]

build_login_success_server_msg(token, public_key, now) ==
    [status |-> "Yes", timestamp |-> TimestampFrom(now),
     body |-> [kind |-> "LoginSuccess", token |-> token, public_key |-> public_key]]

\* build_room_data with the two lists taken back to front.
build_room_data_Reversed(chat_logs, notifications, occupant_names, room, now) ==
    [status |-> "Yes", timestamp |-> TimestampFrom(now),
     body |-> [kind |-> "RoomData",
               query_ts |-> TimestampFrom(now),
               room_name |-> room.name,
               logs |-> [i \in 1..Len(chat_logs) |->
                   LET ml == chat_logs[Len(chat_logs) + 1 - i]
                   IN  [sender |-> ml.username,
                        timestamp |-> TimestampFrom(ml.timestamp),
                        content |-> ml.contents]],
               notifications |-> [i \in 1..Len(notifications) |->
                   LET nl == notifications[Len(notifications) + 1 - i]
                   IN  [sender |-> "SERVER",
                        timestamp |-> TimestampFrom(nl.timestamp),
                        content |-> nl.contents]],
               occupants |-> occupant_names]]

\* chat_logs.iter().map(..).collect() and notifications.iter().map(..).collect()
build_room_data(chat_logs, notifications, occupant_names, room, now) ==
    [status |-> "Yes", timestamp |-> TimestampFrom(now),
     body |-> [kind |-> "RoomData",
               query_ts |-> TimestampFrom(now),
               room_name |-> room.name,
               logs |-> [i \in 1..Len(chat_logs) |->
                   LET ml == chat_logs[i]
                   IN  [sender |-> ml.username,
                        timestamp |-> TimestampFrom(ml.timestamp),
                        content |-> ml.contents]],
               notifications |-> [i \in 1..Len(notifications) |->
                   LET nl == notifications[i]
                   IN  [sender |-> "SERVER",
                        timestamp |-> TimestampFrom(nl.timestamp),
                        content |-> nl.contents]],
               occupants |-> occupant_names]]

build_msg_log_server_msg(msg, user) ==
    [status |-> "Yes", timestamp |-> TimestampFrom(msg.timestamp),
     body |-> [kind |-> "ChatRecv", direct |-> FALSE,
               chat_msg |-> [sender |-> user.name,
                             timestamp |-> TimestampFrom(msg.timestamp),
                             content |-> msg.contents]]]

build_time_server_msg(time) ==
    [status |-> "Yes", timestamp |-> time, body |-> [kind |-> "Empty"]]

\* serOk, encOk: whether bincode::serialize and cbc_encode return Ok.
serialized_server_msg(s, serOk) ==
    IF serOk THEN [ok |-> TRUE, bytes |-> Bincode(s)]
    ELSE [ok |-> FALSE, err |-> "serialize"]

encrypt_message(key, serialized, encOk) ==
    IF encOk THEN [ok |-> TRUE, frame |-> Binary(Cbc(key, serialized))]
    ELSE [ok |-> FALSE, err |-> "encrypt"]

\* What a helper returns, with the message it built and whether it called
\* encrypt_message.
Returned(res, server_msg, encrypted) ==
    IF res.ok
    THEN [ok |-> TRUE, frame |-> res.frame, built |-> server_msg, encrypted |-> encrypted]
    ELSE [ok |-> FALSE, err |-> res.err, built |-> server_msg, encrypted |-> encrypted]

\* let serialized = ..serialized_server_msg(server_msg)?;
\* let encrypted = ..encrypt_message(key, serialized)?; Ok(encrypted)
SerializeThenEncrypt(server_msg, key, serOk, encOk) ==
    LET serialized == serialized_server_msg(server_msg, serOk)
    IN  IF ~serialized.ok THEN Returned(serialized, server_msg, FALSE)
        ELSE Returned(encrypt_message(key, serialized.bytes, encOk), server_msg, TRUE)

\* let serialized = ..serialized_server_msg(server_msg)?; Ok(Message::Binary(serialized))
on_login_success(token, public_key, now, serOk) ==
    LET server_msg == build_login_success_server_msg(token, public_key, now)
        serialized == serialized_server_msg(server_msg, serOk)
    IN  IF ~serialized.ok THEN Returned(serialized, server_msg, FALSE)
        ELSE Returned([ok |-> TRUE, frame |-> Binary(serialized.bytes)], server_msg, FALSE)

prepare_send_msg_log(msg, user, key, serOk, encOk) ==
    SerializeThenEncrypt(build_msg_log_server_msg(msg, user), key, serOk, encOk)

prepare_send_time(key, t, serOk, encOk) ==
    SerializeThenEncrypt(build_time_server_msg(t), key, serOk, encOk)

room_data_response(key, chat_logs, notifications, occupant_names, room, now, serOk, encOk) ==
    SerializeThenEncrypt(build_room_data(chat_logs, notifications, occupant_names, room, now),
                         key, serOk, encOk)

\* The calls of the helpers, over the bounded inputs.
Calls ==
    [fn : {"on_login_success"}, token : {"t1", "t2"}, public_key : Keys,
     now : Stamps, serOk : BOOLEAN, encOk : {TRUE}]
    \cup [fn : {"prepare_send_msg_log"}, msg : MessageLogs, user : UserRecords,
          key : Keys, serOk : BOOLEAN, encOk : BOOLEAN]
    \cup [fn : {"prepare_send_time"}, key : Keys, t : {TimestampFrom(x) : x \in Stamps},
          serOk : BOOLEAN, encOk : BOOLEAN]
    \cup [fn : {"room_data_response"}, key : Keys,
          chat_logs : SeqsUpTo(MessageLogs, MaxLogs),
          notifications : SeqsUpTo(NotificationLogs, MaxLogs),
          occupants : {<<>>, <<"ann", "bob">>}, room : RoomRecords,
          now : Stamps, serOk : BOOLEAN, encOk : BOOLEAN]

core == <<world, occupants, locks, poison, chans, cmdQ, msgQ, recvPc, cmdPc,
          delivered, rmCalls, last>>

CallOnLoginSuccess ==
    /\ call.fn = "on_login_success" /\ ret = NoRet
    /\ ret' = on_login_success(call.token, call.public_key, call.now, call.serOk)
    /\ UNCHANGED <<core, call>>

CallPrepareSendMsgLog ==
    /\ call.fn = "prepare_send_msg_log" /\ ret = NoRet
    /\ ret' = prepare_send_msg_log(call.msg, call.user, call.key, call.serOk, call.encOk)
    /\ UNCHANGED <<core, call>>

CallPrepareSendTime ==
    /\ call.fn = "prepare_send_time" /\ ret = NoRet
    /\ ret' = prepare_send_time(call.key, call.t, call.serOk, call.encOk)
    /\ UNCHANGED <<core, call>>

CallRoomDataResponse ==
    /\ call.fn = "room_data_response" /\ ret = NoRet
    /\ ret' = room_data_response(call.key, call.chat_logs, call.notifications,
                                 call.occupants, call.room, call.now,
                                 call.serOk, call.encOk)
    /\ UNCHANGED <<core, call>>

\* One call of one helper, on any of the inputs; the handlers' tasks at rest.
AdaptorInit ==
    /\ CoreInit
    /\ userRoom = [c \in Users |-> 1]
    /\ call \in Calls
    /\ ret = NoRet

AdaptorNext ==
    \/ CallOnLoginSuccess
    \/ CallPrepareSendMsgLog
    \/ CallPrepareSendTime
    \/ CallRoomDataResponse

AdaptorSpec == AdaptorInit /\ [][AdaptorNext]_vars

\* ------------------------------------------------------------- the claims
CmdHandling == {"c_reg", "c_user", "c_occ", "c_route"}
Removing == {"rm_reg", "rm_user", "rm_occ", "rm_remove"}

\* The step in which connection c is handed frame f.
FrameStep(c, f) == delivered' = delivered + 1 /\ last' = Event(c, f, "none")
\* The step in which c's command task is done with the command it took.
CmdFinishes(c) == cmdPc[c] \in CmdHandling /\ cmdPc'[c] \notin CmdHandling
\* The step in which c's call of remove_user returns or panics.
RemoveFinishes(c) == recvPc[c] \in Removing /\ recvPc'[c] \notin Removing
\* c's room is in the registry and c's id is in that room's occupant table.
InOwnTable(c) == userRoom[c] \in registry /\ c \in DOMAIN occupants[userRoom[c]]

TokenlessFrames ==
    {f \in Frames : f.kind = "text" /\ Decode(f).ok /\ Decode(f).cm.token = "None"}
UndecodableFrames == {f \in Frames : f.kind = "text" /\ ~Decode(f).ok}

\* No unbounded_send on a reply channel has failed so far: every panic, if
\* any, has another cause than a receiver that is gone.
NoSendFailed == firstPanic.cmd # "panic_send"

\* C1: every GetTime command handled while the invoking user's room is in the
\* registry and the user's id is in its occupant table sends exactly one
\* ServerMsg {Yes, Empty}, on the user's own reply channel, and nothing on any
\* other reply channel or on the room sink.  (Stated for the runs in which
\* the receiver of every reply channel used is alive.)
C1_GetTimeAnsweredOnOwnChannel ==
    [][\A c \in Users :
         (CmdFinishes(c) /\ InOwnTable(c) /\ NoSendFailed') =>
             /\ chan' = [chan EXCEPT ![c] = Append(@, ServerMsgTime)]
             /\ roomSink' = roomSink]_vars

\* C2: a text frame that decodes to a ClientMsg without a token, whatever its
\* body, leaves the chat queue and the command queue as they were.
C2_TokenlessForwardsNothing ==
    [][\A c \in Users, f \in TokenlessFrames :
         FrameStep(c, f) => (msgQ' = msgQ /\ cmdQ' = cmdQ)]_vars

\* A second tokenless SendToRoom-bodied frame has arrived after one with a
\* token was forwarded, and the chat queue still holds that one item only.
C2_Witness ==
    \E c \in Users :
        /\ last = Event(c, [kind |-> "text", wellFormed |-> TRUE,
                            msg |-> [token |-> "None", body |-> "SendToRoom"]], "none")
        /\ delivered = 2
        /\ Len(msgQ[c]) = 1

\* C3: a text frame that does not decode forwards nothing, sends nothing,
\* calls no removal and leaves the routing task reading.
C3_UndecodableIsDropped ==
    [][\A c \in Users, f \in UndecodableFrames :
         FrameStep(c, f) =>
             /\ msgQ' = msgQ /\ cmdQ' = cmdQ
             /\ chan' = chan /\ roomSink' = roomSink
             /\ rmCalls' = rmCalls /\ occupants' = occupants
             /\ recvPc'[c] = "Reading"]_vars

\* An undecodable frame has just come to a connection that had queued a
\* GetTime before it: the command is still the only item queued, the user is
\* still an occupant and the routing task is reading.
C3_Witness ==
    \E c \in Users :
        /\ last = Event(c, [kind |-> "text", wellFormed |-> FALSE, msg |-> NoMsg], "none")
        /\ delivered = 2
        /\ rmCalls[c] = 0
        /\ InOwnTable(c)
        /\ Len(cmdQ[c]) = 1
        /\ recvPc[c] = "Reading"

\* C4: remove_user is called once per connection, however many close frames
\* and transport errors its stream yields.
C4_TeardownOnce == \A c \in Users : rmCalls[c] <= 1

\* C5: when the routing task has handled a close frame or an error, the
\* user's id is not in the occupant table of its room (if the registry has
\* the room), and the handling raised no panic, repeated or not.  (Stated
\* for the runs in which no send on a reply channel has failed.)
C5_CloseRemovesAndNeverFails ==
    [][\A c \in Users :
         (RemoveFinishes(c) /\ NoSendFailed) =>
             /\ recvPc'[c] = "Reading"
             /\ userRoom[c] \in registry => c \notin DOMAIN occupants'[userRoom[c]]]_vars

\* C6: in every registry state remove_user twice leaves the tables as
\* remove_user once does, and removing an id that is not in the table changes
\* nothing and does not fail.  (Stated for the registry states reached
\* without a failed send on a reply channel.)
C6_RemoveIdempotent ==
    \A c \in Users :
        LET once == RemoveUser(RegistryState, c)
            twice == RemoveUser(once.st, c)
        IN  NoSendFailed =>
            /\ twice.st.occ = once.st.occ
            /\ once.result = "ok" /\ twice.result = "ok"
            /\ ~InOwnTable(c) => once.st.occ = occupants

\* C7: once a close frame or an error has been handled, no later frame of
\* that connection reaches the chat queue or the command queue.
C7_NothingForwardedAfterClose ==
    [][\A c \in Users :
         rmCalls[c] > 0 =>
             /\ msgQ'[c] = msgQ[c]
             /\ Len(cmdQ'[c]) <= Len(cmdQ[c])]_vars

\* C8: a command whose user has no entry in the occupant table of its room
\* ends with an error handed back to the caller, the task still running, and
\* nothing sent.
C8_MissingEntryIsAnErrorResult ==
    [][\A c \in Users :
         (CmdFinishes(c) /\ cmdPc[c] = "c_route" /\ ~InOwnTable(c)) =>
             /\ cmdPc'[c] = "Waiting"
             /\ last'.cmd # "sent"
             /\ chan' = chan /\ roomSink' = roomSink]_vars

\* C9: with connection a closed, and its queued GetTime handled after its
\* removal, another connection b still gets the answer to its GetTime on its
\* own channel unless its own receiver is gone, and b's close still removes b.
C9_CloseLeavesOthersRunning ==
    [][\A a, b \in Users :
         (a # b /\ rmCalls[a] > 0 /\ firstPanic = Event(a, NoFrame, "panic_no_entry")) =>
             /\ (CmdFinishes(b) /\ InOwnTable(b) /\ last'.cmd # "panic_send") =>
                    chan'[b] = Append(chan[b], ServerMsgTime)
             /\ RemoveFinishes(b) =>
                    /\ recvPc'[b] = "Reading"
                    /\ ~InOwnTable(b)']_vars

\* C10: no task asks for the registry lock while it holds an occupant table
\* lock, and none asks for an occupant table lock while it holds a user lock.
C10_LockOrder ==
    \A c \in Users :
        /\ recvPc[c] = "rm_reg" => \A r \in RoomIds : occLock[r] # RecvTask(c)
        /\ cmdPc[c] = "c_reg" => \A r \in RoomIds : occLock[r] # CmdTask(c)
        /\ recvPc[c] = "rm_occ" => \A u \in Users : userLock[u] # RecvTask(c)
        /\ cmdPc[c] = "c_occ" => \A u \in Users : userLock[u] # CmdTask(c)

\* C11: under fair scheduling every GetTime on a connection's command queue
\* is eventually taken from it and handled to an end (a response sent, an error
\* logged, or a failure raised): no command stays queued for ever.
C11_EveryQueuedCommandHandled ==
    \A c \in Users : (cmdQ[c] # <<>>) ~> (cmdQ[c] = <<>>)

\* C12: whenever one of the four helpers returns a frame, the frame is the
\* encryption (under the call's key, where it has one) of the serialization
\* of the message it built; when serialization fails the helper returns that
\* error and has not called encrypt_message.
C12_HelpersChainToEncryption ==
    ret # NoRet =>
        /\ ret.ok =>
               /\ ret.frame.kind = "Binary"
               /\ ret.frame.payload.layer = "cbc"
               /\ ret.frame.payload.of = Bincode(ret.built)
               /\ call.fn # "on_login_success" => ret.frame.payload.key = call.key
        /\ ~call.serOk => (~ret.ok /\ ret.err = "serialize" /\ ~ret.encrypted)

\* C13: a command handled for a user whose recorded room the registry does
\* not have ends with the failure logged, nothing sent, no table and no lock
\* state changed, and the command task back at its queue for the commands
\* that follow.  (Stated for the runs in which no send on a reply channel
\* has failed.)
C13_AbsentRoomIsLoggedAndLoopLives ==
    [][\A c \in Users :
         (CmdFinishes(c) /\ userRoom[c] \notin registry /\ NoSendFailed) =>
             /\ cmdPc'[c] = "Waiting"
             /\ last' = Event(c, NoFrame, "logged_no_room")
             /\ chan' = chan /\ roomSink' = roomSink
             /\ occupants' = occupants
             /\ UNCHANGED <<registry, userRoom, poison>>]_vars

TokenFrames ==
    {f \in Frames : f.kind = "text" /\ Decode(f).ok /\ Decode(f).cm.token = "Some"}

\* C14: a decoded ClientMsg with a token puts, by its body, exactly its
\* envelope on the chat queue (SendToRoom), exactly one GetTime on the command
\* queue (GetTime), or nothing (any other body), nothing on the other queue,
\* and leaves the routing task reading.  (Stated for the runs in which no
\* send on a reply channel has failed.)
C14_TokenFramesRouteByBody ==
    [][\A c \in Users, f \in TokenFrames :
         (FrameStep(c, f) /\ NoSendFailed) =>
             LET cm == Decode(f).cm
             IN  /\ msgQ' = IF cm.body = "SendToRoom"
                            THEN [msgQ EXCEPT ![c] = Append(@, Envelope(c, cm))]
                            ELSE msgQ
                 /\ cmdQ' = IF cm.body = "GetTime"
                            THEN [cmdQ EXCEPT ![c] = Append(@, GetTime)]
                            ELSE cmdQ
                 /\ recvPc'[c] = "Reading"]_vars

\* What the frame f of connection c adds to the chat queue and to the
\* command queue when it is classified once.
ChatItems(c, f) == IF FrameRoute(f) = "chat" THEN <<Envelope(c, Decode(f).cm)>> ELSE <<>>
CmdItems(f) == IF FrameRoute(f) = "cmd" THEN <<GetTime>> ELSE <<>>

\* C15: each frame handed to a connection adds its own item, if it has one,
\* once and at the tail of the queue it belongs to, in the step that hands
\* it over; no other step adds to, or reorders, a connection's queues (the
\* command task only takes the head).  (Stated for the runs in which no send
\* on a reply channel has failed.)
C15_QueuesFollowArrivalOrder ==
    [][NoSendFailed =>
         \A c \in Users :
             IF \E f \in Frames : FrameStep(c, f)
             THEN \A f \in Frames : FrameStep(c, f) =>
                      /\ msgQ'[c] = msgQ[c] \o ChatItems(c, f)
                      /\ cmdQ'[c] = cmdQ[c] \o CmdItems(f)
             ELSE /\ msgQ'[c] = msgQ[c]
                  /\ cmdQ'[c] = cmdQ[c] \/ (cmdQ[c] # <<>> /\ cmdQ'[c] = Tail(cmdQ[c]))]_vars

\* The task t holds one of the locks.
Holds(t) ==
    \/ regLock = t
    \/ \E r \in RoomIds : occLock[r] = t
    \/ \E u \in Users : userLock[u] = t

\* C16: a command task awaiting its next command and a routing task awaiting
\* its next frame hold no registry lock, no occupant table lock and no user
\* lock.
C16_NoLockAcrossAwait ==
    \A c \in Users :
        /\ cmdPc[c] = "Waiting" => ~Holds(CmdTask(c))
        /\ recvPc[c] = "Reading" => ~Holds(RecvTask(c))

\* A command task is back at its queue having logged an absent room, and a
\* routing task is back at its stream having removed its user; no lock is
\* held.
C16_Witness ==
    \E c, d \in Users :
        /\ cmdPc[c] = "Waiting" /\ last = Event(c, NoFrame, "logged_no_room")
        /\ recvPc[d] = "Reading" /\ rmCalls[d] = 1 /\ userRoom[d] \in registry
        /\ ~InOwnTable(d)
        /\ regLock = Free

\* C17: the RoomData message built from chat_logs, notifications and
\* occupants has as many logs as chat_logs, the i-th carrying the author,
\* timestamp and contents of chat_logs[i]; as many notifications as
\* notifications, the i-th carrying sender "SERVER" and the timestamp and
\* contents of notifications[i]; and the occupants as they were given.
C17_RoomDataKeepsOrderAndCount ==
    (call.fn = "room_data_response" /\ ret # NoRet) =>
        LET data == ret.built.body
        IN  /\ data.kind = "RoomData"
            /\ Len(data.logs) = Len(call.chat_logs)
            /\ \A i \in 1..Len(call.chat_logs) :
                   /\ data.logs[i].sender = call.chat_logs[i].username
                   /\ data.logs[i].timestamp = TimestampFrom(call.chat_logs[i].timestamp)
                   /\ data.logs[i].content = call.chat_logs[i].contents
            /\ Len(data.notifications) = Len(call.notifications)
            /\ \A i \in 1..Len(call.notifications) :
                   /\ data.notifications[i].sender = "SERVER"
                   /\ data.notifications[i].timestamp =
                          TimestampFrom(call.notifications[i].timestamp)
                   /\ data.notifications[i].content = call.notifications[i].contents
            /\ data.occupants = call.occupants

\* room_data_response has returned a frame for two chat records that differ
\* in author, time and contents, two notifications that differ in time, and
\* two occupants.
C17_Witness ==
    /\ call.fn = "room_data_response" /\ ret.ok
    /\ Len(call.chat_logs) = 2
    /\ call.chat_logs[1].username # call.chat_logs[2].username
    /\ call.chat_logs[1].timestamp > call.chat_logs[2].timestamp
    /\ call.chat_logs[1].contents # call.chat_logs[2].contents
    /\ Len(call.notifications) = 2
    /\ call.notifications[1].timestamp # call.notifications[2].timestamp
    /\ Len(call.occupants) = 2

\* Every user id is in the occupant table of one room at most.
AtMostOneRoom ==
    \A u \in Users : Cardinality({r \in RoomIds : u \in DOMAIN occupants[r]}) <= 1

\* C18: no step adds or removes a room or changes User.room; a step changes
\* an occupant table only when it is the last step of remove_user of some
\* connection c, the table is the one of the room c's user records, and the
\* change is the loss of c's own entry; so a user id in at most one table
\* before a step is in at most one after it.
C18_OnlyOwnEntryRemoved ==
    [][/\ registry' = registry
       /\ userRoom' = userRoom
       /\ DOMAIN occupants' = DOMAIN occupants
       /\ \A r \in RoomIds :
              \/ occupants'[r] = occupants[r]
              \/ \E c \in Users :
                     /\ recvPc[c] = "rm_remove" /\ recvPc'[c] = "Reading"
                     /\ r = userRoom[c]
                     /\ occupants'[r] = [u \in (DOMAIN occupants[r]) \ {c} |-> occupants[r][u]]
                     /\ \A q \in RoomIds \ {r} : occupants'[q] = occupants[q]
       /\ AtMostOneRoom => AtMostOneRoom']_vars

\* One of two occupants of a room has been removed by its own connection's
\* close or error; the other still has its entry.
C18_Witness ==
    \E c, d \in Users :
        /\ c # d /\ userRoom[c] = userRoom[d]
        /\ rmCalls[c] = 1 /\ recvPc[c] = "Reading"
        /\ ~InOwnTable(c) /\ InOwnTable(d)
        /\ occupants[userRoom[d]][d] = d

Tasks == {RecvTask(c) : c \in Users} \cup {CmdTask(c) : c \in Users}

\* The holder of the lock the routing task, or the command task, of c is
\* about to ask for; Free when it asks for none or the lock is free.
RecvWaitsFor(c) ==
    IF recvPc[c] = "rm_reg" THEN regLock
    ELSE IF recvPc[c] \in {"rm_user", "rm_remove"} THEN userLock[c]
    ELSE IF recvPc[c] = "rm_occ" /\ RmRoom(c) # EmptyRoom THEN occLock[RmRoom(c)]
    ELSE Free
CmdWaitsFor(c) ==
    IF cmdPc[c] = "c_reg" THEN regLock
    ELSE IF cmdPc[c] = "c_user" THEN userLock[c]
    ELSE IF cmdPc[c] = "c_occ" THEN occLock[CmdRoom(c)]
    ELSE IF cmdPc[c] = "c_route" /\ DOMAIN occupants[CmdRoom(c)] # {} THEN userLock[c]
    ELSE Free
WaitsFor(t) == IF t[1] = "recv" THEN RecvWaitsFor(t[2]) ELSE CmdWaitsFor(t[2])

\* No set of tasks each waits for a lock held by a task of the set.
NoWaitCycle ==
    \A S \in (SUBSET Tasks) \ {{}} : \E t \in S : WaitsFor(t) \notin S

\* C19: no set of tasks ever wait for each other's locks, and under fair
\* scheduling every call of remove_user and every turn of command_handler,
\* once begun, gets each lock it asks for (or the lock's poison) and ends.
C19_DeadlockFree ==
    /\ []NoWaitCycle
    /\ \A c \in Users :
           /\ (recvPc[c] \in Removing) ~> (recvPc[c] \notin Removing)
           /\ (cmdPc[c] \in CmdHandling) ~> (cmdPc[c] \notin CmdHandling)

\* A routing task inside remove_user holds the registry lock and its user's
\* lock and is about to ask for the occupant table, while the command task
\* of the same connection waits for the registry lock.
C19_Witness ==
    \E c \in Users :
        /\ recvPc[c] = "rm_occ" /\ regLock = RecvTask(c) /\ userLock[c] = RecvTask(c)
        /\ cmdPc[c] = "c_reg"
        /\ \E d \in Users \ {c} : cmdPc[d] = "c_reg"

\* C20: when recv_routing_handler has returned, having seen a close frame or
\* an error or not, its user's id is not in the occupant table of the room
\* the user records.
C20_NoEntryAfterReturn ==
    \A c \in Users : recvPc[c] = "Returned" => ~InOwnTable(c)

====
